---- MODULE Spec2Model ----
(***************************************************************************)
(* Model of the twilio-go HTTP client layer (src/httpclient.go):           *)
(* NewHTTPClient, Get, Post, Delete and the private request method,        *)
(* together with the parts of net/url, net/http, io/ioutil and             *)
(* github.com/pkg/errors that decide what those functions return.          *)
(*                                                                         *)
(* Strings (URLs, paths, bodies) are sequences of byte values.  Error      *)
(* values are cause chains: a sequence of layers, outermost first, each    *)
(* layer carrying the identity of its allocation (id); the nil error is    *)
(* the empty chain.  A layer's message is a literal text followed by the   *)
(* bytes of its formatted operand (arg).                                   *)
(***************************************************************************)
EXTENDS Integers, Sequences, FiniteSets, TLC

(***************************************************************************)
(* Bounds of the explored input space.                                     *)
(***************************************************************************)
MaxBaseLen == 4
MaxPathLen == 2
MaxBodyLen == 1

\* The bytes URL strings are built from: 'a' ':' '/' '%'.  They reach every
\* branch of url.Parse below that does not need '?', '#', '@', '[' or '*'.
URLChars == {97, 58, 47, 37}

\* The bytes response bodies are built from: '{' '}'.
BodyChars == {123, 125}

RECURSIVE StringsUpTo(_, _)
StringsUpTo(chars, n) ==
    IF n = 0 THEN {<<>>}
    ELSE LET shorter == StringsUpTo(chars, n - 1)
         IN  shorter \cup {Append(s, c) : s \in shorter, c \in chars}

(***************************************************************************)
(* package strings                                                         *)
(***************************************************************************)
HasPrefix(s, p) == Len(s) >= Len(p) /\ SubSeq(s, 1, Len(p)) = p

\* 1-based position of the first c in s, 0 when absent (strings.Index + 1).
Index(s, c) ==
    IF \E i \in 1..Len(s) : s[i] = c
    THEN CHOOSE i \in 1..Len(s) : s[i] = c /\ \A j \in 1..(i - 1) : s[j] # c
    ELSE 0

\* 1-based position of the last c in s, 0 when absent.
LastIndex(s, c) ==
    IF \E i \in 1..Len(s) : s[i] = c
    THEN CHOOSE i \in 1..Len(s) : s[i] = c /\ \A j \in (i + 1)..Len(s) : s[j] # c
    ELSE 0

From(s, i) == SubSeq(s, i, Len(s))

ToLower(s) == [i \in 1..Len(s) |-> IF 65 <= s[i] /\ s[i] <= 90 THEN s[i] + 32 ELSE s[i]]

(***************************************************************************)
(* package net/url (Go 1.13, the version the README requires)              *)
(***************************************************************************)
IsAlpha(c) == (97 <= c /\ c <= 122) \/ (65 <= c /\ c <= 90)
IsDigit(c) == 48 <= c /\ c <= 57

ishex(c) == IsDigit(c) \/ (97 <= c /\ c <= 102) \/ (65 <= c /\ c <= 70)

unhex(c) ==
    IF IsDigit(c) THEN c - 48
    ELSE IF 97 <= c /\ c <= 102 THEN c - 97 + 10
    ELSE IF 65 <= c /\ c <= 70 THEN c - 65 + 10
    ELSE 0

\* "0123456789ABCDEF"[d]
upperhex(d) == IF d < 10 THEN 48 + d ELSE 55 + d

\* The characters url.shouldEscape leaves alone in a host:
\* ! $ & ' ( ) * + , ; = : [ ] < > "
HostSubDelims == {33, 36, 38, 39, 40, 41, 42, 43, 44, 59, 61, 58, 91, 93, 60, 62, 34}

\* mode is "encodePath" or "encodeHost", the two modes Parse and String use
\* for a URL without user info, query and fragment.
shouldEscape(c, mode) ==
    IF IsAlpha(c) \/ IsDigit(c) THEN FALSE
    ELSE IF mode = "encodeHost" /\ c \in HostSubDelims THEN FALSE
    ELSE IF c \in {45, 95, 46, 126} THEN FALSE                   \* - _ . ~
    ELSE IF c \in {36, 38, 43, 44, 47, 58, 59, 61, 63, 64} /\ mode = "encodePath"
         THEN c \in {59, 44, 63}                                 \* ; , ?
    ELSE TRUE

RECURSIVE unescapeFrom(_, _, _)
unescapeFrom(s, i, mode) ==
    IF i > Len(s) THEN [err |-> "", out |-> <<>>]
    ELSE IF s[i] = 37
    THEN IF i + 2 > Len(s) \/ ~ishex(s[i + 1]) \/ ~ishex(s[i + 2])
         THEN [err |-> "invalid URL escape", out |-> <<>>]
         ELSE IF mode = "encodeHost" /\ unhex(s[i + 1]) < 8
                 /\ SubSeq(s, i, i + 2) # <<37, 50, 53>>         \* "%25"
         THEN [err |-> "invalid URL escape", out |-> <<>>]
         ELSE LET r == unescapeFrom(s, i + 3, mode)
              IN  IF r.err # "" THEN r
                  ELSE [err |-> "",
                        out |-> <<unhex(s[i + 1]) * 16 + unhex(s[i + 2])>> \o r.out]
    ELSE IF mode = "encodeHost" /\ s[i] < 128 /\ shouldEscape(s[i], "encodeHost")
    THEN [err |-> "invalid character in host name", out |-> <<>>]
    ELSE LET r == unescapeFrom(s, i + 1, mode)
         IN  IF r.err # "" THEN r ELSE [err |-> "", out |-> <<s[i]>> \o r.out]

unescape(s, mode) == unescapeFrom(s, 1, mode)

RECURSIVE escape(_, _)
escape(s, mode) ==
    IF s = <<>> THEN <<>>
    ELSE LET c == Head(s)
         IN  (IF shouldEscape(c, mode)
              THEN <<37, upperhex(c \div 16), upperhex(c % 16)>>
              ELSE <<c>>) \o escape(Tail(s), mode)

RECURSIVE getschemeFrom(_, _)
getschemeFrom(rawurl, i) ==
    IF i > Len(rawurl) THEN [scheme |-> <<>>, path |-> rawurl, err |-> ""]
    ELSE LET c == rawurl[i]
         IN  IF IsAlpha(c) THEN getschemeFrom(rawurl, i + 1)
             ELSE IF IsDigit(c) \/ c \in {43, 45, 46}            \* + - .
             THEN IF i = 1 THEN [scheme |-> <<>>, path |-> rawurl, err |-> ""]
                  ELSE getschemeFrom(rawurl, i + 1)
             ELSE IF c = 58
             THEN IF i = 1
                  THEN [scheme |-> <<>>, path |-> <<>>, err |-> "missing protocol scheme"]
                  ELSE [scheme |-> SubSeq(rawurl, 1, i - 1),
                        path |-> From(rawurl, i + 1), err |-> ""]
             ELSE [scheme |-> <<>>, path |-> rawurl, err |-> ""]

getscheme(rawurl) == getschemeFrom(rawurl, 1)

validOptionalPort(port) ==
    IF port = <<>> THEN TRUE
    ELSE IF port[1] # 58 THEN FALSE
    ELSE \A i \in 2..Len(port) : IsDigit(port[i])

parseHost(host) ==
    LET i == LastIndex(host, 58)
    IN  IF i # 0 /\ ~validOptionalPort(From(host, i))
        THEN [err |-> "invalid port after host", out |-> <<>>]
        ELSE unescape(host, "encodeHost")

\* The zero url.URL; isNil marks the nil *url.URL a failed Parse returns.
ZeroURL == [isNil |-> FALSE, Scheme |-> <<>>, Opaque |-> <<>>, Host |-> <<>>,
            Path |-> <<>>, RawPath |-> <<>>]

NilURL == [ZeroURL EXCEPT !.isNil = TRUE]

setPath(u, p) ==
    LET path == unescape(p, "encodePath")
    IN  IF path.err # "" THEN [url |-> NilURL, err |-> path.err]
        ELSE [url |-> [u EXCEPT !.Path = path.out,
                                !.RawPath = IF p = escape(path.out, "encodePath")
                                            THEN <<>> ELSE p],
              err |-> ""]

\* url.Parse for strings without '#', '?', '@', '[', '*' and control bytes.
\* err is the message of the *url.Error's inner error, "" for nil.
Parse(rawurl) ==
    LET gs == getscheme(rawurl)
        scheme == ToLower(gs.scheme)
        rest == gs.path
        colon == Index(rest, 58)
        slash == Index(rest, 47)
        hasAuthority == (scheme # <<>> \/ ~HasPrefix(rest, <<47, 47, 47>>))
                        /\ HasPrefix(rest, <<47, 47>>)
        afterSlashes == From(rest, 3)
        cut == Index(afterSlashes, 47)
        authority == IF cut = 0 THEN afterSlashes ELSE SubSeq(afterSlashes, 1, cut - 1)
        pathPart == IF ~hasAuthority THEN rest
                    ELSE IF cut = 0 THEN <<>> ELSE From(afterSlashes, cut)
        host == IF hasAuthority THEN parseHost(authority) ELSE [err |-> "", out |-> <<>>]
    IN  IF gs.err # "" THEN [url |-> NilURL, err |-> gs.err]
        ELSE IF ~HasPrefix(rest, <<47>>) /\ scheme # <<>>
        THEN [url |-> [ZeroURL EXCEPT !.Scheme = scheme, !.Opaque = rest], err |-> ""]
        ELSE IF ~HasPrefix(rest, <<47>>) /\ colon > 0 /\ (slash = 0 \/ colon < slash)
        THEN [url |-> NilURL, err |-> "first path segment in URL cannot contain colon"]
        ELSE IF host.err # "" THEN [url |-> NilURL, err |-> host.err]
        ELSE setPath([ZeroURL EXCEPT !.Scheme = scheme, !.Host = host.out], pathPart)

validEncodedPath(s) ==
    \A i \in 1..Len(s) :
        \/ s[i] \in {33, 36, 38, 39, 40, 41, 42, 43, 44, 59, 61, 58, 64, 91, 93, 37}
        \/ ~shouldEscape(s[i], "encodePath")

EscapedPath(u) ==
    LET p == unescape(u.RawPath, "encodePath")
    IN  IF u.RawPath # <<>> /\ validEncodedPath(u.RawPath) /\ p.err = "" /\ p.out = u.Path
        THEN u.RawPath
        ELSE escape(u.Path, "encodePath")

\* (*URL).String for a URL without user info, query and fragment.
String(u) ==
    LET schemePart == IF u.Scheme # <<>> THEN u.Scheme \o <<58>> ELSE <<>>
        path == EscapedPath(u)
        hostPart ==
            IF u.Scheme # <<>> \/ u.Host # <<>>
            THEN (IF u.Host # <<>> \/ u.Path # <<>> THEN <<47, 47>> ELSE <<>>)
                 \o (IF u.Host # <<>> THEN escape(u.Host, "encodeHost") ELSE <<>>)
            ELSE <<>>
        slashPart == IF path # <<>> /\ path[1] # 47 /\ u.Host # <<>> THEN <<47>> ELSE <<>>
        colon == Index(path, 58)
        dotPart == IF schemePart \o hostPart \o slashPart = <<>> /\ colon > 0
                      /\ Index(SubSeq(path, 1, colon - 1), 47) = 0
                   THEN <<46, 47>> ELSE <<>>
    IN  IF u.Opaque # <<>> THEN schemePart \o u.Opaque
        ELSE schemePart \o hostPart \o slashPart \o dotPart \o path

(***************************************************************************)
(* package github.com/pkg/errors                                           *)
(***************************************************************************)
NilError == <<>>

\* errors.New / errors.Errorf: a *fundamental, which has no Cause method.
Errorf(text, arg, id) == <<[type |-> "fundamental", text |-> text, arg |-> arg, id |-> id]>>

\* Wrapf with the cause flattened into a new error: the chain is lost.
WrapfFlatten(err, text, arg, id) ==
    IF err = NilError THEN NilError
    ELSE <<[type |-> "fundamental", text |-> text, arg |-> arg, id |-> id]>>

\* errors.Wrap / errors.Wrapf: &withStack{&withMessage{cause: err, msg}, callers()}.
Wrapf(err, text, arg, id) ==
    IF err = NilError THEN NilError
    ELSE <<[type |-> "withStack", text |-> "", arg |-> <<>>, id |-> id],
           [type |-> "withMessage", text |-> text, arg |-> arg, id |-> id]>> \o err

\* errors.Cause: follow Cause() while the error has one.
RECURSIVE Cause(_)
Cause(err) ==
    IF err # NilError /\ Head(err).type \in {"withStack", "withMessage"}
    THEN Cause(Tail(err))
    ELSE err

\* err.Error(), as the sequence of its (text, arg) pieces.
RECURSIVE ErrorString(_)
ErrorString(err) ==
    IF err = NilError THEN <<>>
    ELSE IF Head(err).type = "withStack" THEN ErrorString(Tail(err))
    ELSE IF Head(err).type = "withMessage"
    THEN <<[text |-> Head(err).text, arg |-> Head(err).arg], [text |-> ": ", arg |-> <<>>]>>
         \o ErrorString(Tail(err))
    ELSE <<[text |-> Head(err).text, arg |-> Head(err).arg]>>

\* The package-level sentinel, allocated once.
ErrNotFound == Errorf("not found", <<>>, "ErrNotFound")

(***************************************************************************)
(* package fmt: the %d verb                                                *)
(***************************************************************************)
RECURSIVE FormatUint(_)
FormatUint(n) ==
    IF n < 10 THEN <<48 + n>> ELSE FormatUint(n \div 10) \o <<48 + (n % 10)>>

\* The code formatted with %x instead of %d.
RECURSIVE FormatHex(_)
FormatHex(n) ==
    IF n < 16 THEN <<(IF n < 10 THEN 48 ELSE 87) + n>>
    ELSE FormatHex(n \div 16) \o <<(IF n % 16 < 10 THEN 48 ELSE 87) + (n % 16)>>

FormatIntHex(n) == IF n < 0 THEN <<45>> \o FormatHex(0 - n) ELSE FormatHex(n)

FormatInt(n) == IF n < 0 THEN <<45>> \o FormatUint(0 - n) ELSE FormatUint(n)

(***************************************************************************)
(* package net/http                                                        *)
(***************************************************************************)
NilBody == [isNil |-> TRUE, data |-> <<>>, readErr |-> FALSE]

NilRequest == [isNil |-> TRUE, Method |-> "", URL |-> NilURL,
               Authorization |-> <<>>, ContentType |-> <<>>,
               Body |-> NilBody, ctx |-> ""]

NilResponse == [isNil |-> TRUE, StatusCode |-> 0, Body |-> NilBody]

\* removeEmptyPort: strip the empty port in ":port" of "host:port".
removeEmptyPort(host) ==
    IF LastIndex(host, 58) > LastIndex(host, 93) /\ host[Len(host)] = 58
    THEN SubSeq(host, 1, Len(host) - 1)
    ELSE host

\* url.Parse's error value: a *url.Error, which has no Cause method.
urlError(msg, rawurl) == <<[type |-> "*url.Error", text |-> msg, arg |-> rawurl, id |-> "parse"]>>

\* http.NewRequest for the methods GET, POST and DELETE; the new request
\* carries context.Background().
NewRequest(method, urlStr, body) ==
    LET u == Parse(urlStr)
    IN  IF u.err # "" THEN [req |-> NilRequest, err |-> urlError(u.err, urlStr)]
        ELSE [req |-> [isNil |-> FALSE, Method |-> method,
                       URL |-> [u.url EXCEPT !.Host = removeEmptyPort(@)],
                       Authorization |-> <<>>, ContentType |-> <<>>,
                       Body |-> body, ctx |-> "Background"],
              err |-> NilError]

\* (*Request).SetBasicAuth: Header.Set("Authorization", "Basic "+base64(u:p)).
SetBasicAuth(req, username, password) ==
    [req EXCEPT !.Authorization = <<[username |-> username, password |-> password]>>]

\* req.Header.Set("Content-Type", value)
SetContentType(req, value) == [req EXCEPT !.ContentType = <<value>>]

\* (*Request).WithContext returns a shallow copy of req with its context
\* changed to ctx; req itself is not modified.
WithContext(req, ctx) == [req EXCEPT !.ctx = ctx]

\* ioutil.ReadAll of a body that yields data and then EOF or a read error.
ReadAll(body) ==
    [bytes |-> [isNil |-> FALSE, data |-> body.data],
     err |-> IF body.readErr
             THEN <<[type |-> "errorString", text |-> "unexpected EOF", arg |-> <<>>,
                     id |-> "io.ErrUnexpectedEOF"]>>
             ELSE NilError]

(***************************************************************************)
(* src/httpclient.go                                                       *)
(***************************************************************************)
NilBytes == [isNil |-> TRUE, data |-> <<>>]

NilClient == [isNil |-> TRUE, url |-> NilURL, accountSID |-> "", authToken |-> "",
              RequestHandler |-> "nil"]

\* What a call leaves behind: its arguments, how often the handler's Do ran,
\* the request Do was given, what Do handed back, what happened to the
\* response body, and what the call returned (or that it panicked).
NoCall == [method |-> "", ctx |-> "", path |-> <<>>,
           invoked |-> 0, req |-> NilRequest, resp |-> NilResponse, doErr |-> NilError,
           bodyRead |-> FALSE, bodyClosed |-> FALSE,
           bytes |-> NilBytes, err |-> NilError, panicked |-> FALSE]

\* The status test with its upper edge one too low.
IsFailureStatusOffByOne(statusCode) == statusCode < 200 \/ 399 <= statusCode

\* The status test of request: a code outside [200,400) is a failure.
IsFailureStatus(statusCode) == statusCode < 200 \/ 400 <= statusCode

\* StatusError with a 404 error allocated per call instead of the sentinel.
StatusErrorFresh(statusCode) ==
    IF statusCode = 404 THEN Errorf("not found", <<>>, "Errorf")
    ELSE Errorf("unexpected status code: ", FormatInt(statusCode), "Errorf")

\* The error request returns for a failure status.
StatusError(statusCode) ==
    IF statusCode = 404 THEN ErrNotFound
    ELSE Errorf("unexpected status code: ", FormatInt(statusCode), "Errorf")

\* Do with one retry when the handler returns an error.
DoWithRetry(call, req, do) ==
    [call EXCEPT !.invoked = call.invoked + (IF do.err # NilError THEN 2 ELSE 1),
                 !.req = req, !.resp = do.resp, !.doErr = do.err]

\* client.Do(req): the one place the handler is invoked.
Do(call, req, do) ==
    [call EXCEPT !.invoked = call.invoked + 1, !.req = req,
                 !.resp = do.resp, !.doErr = do.err]

\* The deferred Close left out.
CloseBodyMissing(call) == call

\* defer resp.Body.Close(): runs when request returns, whichever return it is.
CloseBody(call) == [call EXCEPT !.bodyClosed = TRUE]

\* The part of request that follows a Do that returned.
AfterDo(call) ==
    IF call.doErr # NilError
    THEN [call EXCEPT !.err = Wrapf(call.doErr, "could not get a response for ",
                                    String(call.req.URL), "Wrapf")]
    ELSE IF IsFailureStatus(call.resp.StatusCode)
    THEN CloseBody([call EXCEPT !.err = StatusError(call.resp.StatusCode)])
    ELSE LET r == ReadAll(call.resp.Body)
         IN  CloseBody([call EXCEPT !.bodyRead = TRUE, !.bytes = r.bytes, !.err = r.err])

\* apiClient.request.  do is what the handler's Do returns when it is invoked.
request(c, ctx, method, path, body, do) ==
    LET new == NewRequest(method, String(c.url) \o path, body)
        req == SetContentType(SetBasicAuth(new.req, c.accountSID, c.authToken),
                              "application/x-www-form-urlencoded")
        dropped == WithContext(req, ctx)      \* the copy it returns is not kept
        start == [NoCall EXCEPT !.method = method, !.ctx = ctx, !.path = path]
    IN  IF new.err # NilError
        THEN [start EXCEPT !.err = Wrapf(new.err, "could not create request", <<>>, "Wrap")]
        ELSE IF c.RequestHandler = "nil"
        THEN \* client.Do on the nil embedded interface: nil pointer dereference
             [start EXCEPT !.panicked = TRUE]
        ELSE AfterDo(Do(start, req, do))

\* ctor:   the NewHTTPClient call: its baseURL and the error it returned
\* client: the client that call returned (NilClient before it, and on failure)
\* last:   the last Get/Post/Delete on client (NoCall before the first)
VARIABLES ctor, client, last

vars == <<ctor, client, last>>

NoCtor == [called |-> FALSE, baseURL |-> <<>>, err |-> NilError]

Init ==
    /\ ctor = NoCtor
    /\ client = NilClient
    /\ last = NoCall

\* NewHTTPClient returning a client along with the error.
NewHTTPClientPartial(accountSID, authToken, baseURL, rh) ==
    LET u == Parse(baseURL)
    IN  /\ client' = [isNil |-> FALSE, url |-> u.url, accountSID |-> accountSID,
                      authToken |-> authToken, RequestHandler |-> rh]
        /\ ctor' = [called |-> TRUE, baseURL |-> baseURL,
                    err |-> IF u.err # ""
                            THEN Wrapf(urlError(u.err, baseURL),
                                       "could not parse url", <<>>, "Wrap")
                            ELSE NilError]
        /\ UNCHANGED last

\* NewHTTPClient rejecting a base URL that has no scheme.
NewHTTPClientAbsoluteOnly(accountSID, authToken, baseURL, rh) ==
    LET u == Parse(baseURL)
    IN  /\ IF u.err # "" \/ u.url.Scheme = <<>>
           THEN /\ client' = NilClient
                /\ ctor' = [called |-> TRUE, baseURL |-> baseURL,
                            err |-> Wrapf(urlError(IF u.err # "" THEN u.err
                                                   ELSE "missing protocol scheme", baseURL),
                                          "could not parse url", <<>>, "Wrap")]
           ELSE /\ client' = [isNil |-> FALSE, url |-> u.url, accountSID |-> accountSID,
                              authToken |-> authToken, RequestHandler |-> rh]
                /\ ctor' = [called |-> TRUE, baseURL |-> baseURL, err |-> NilError]
        /\ UNCHANGED last

NewHTTPClient(accountSID, authToken, baseURL, rh) ==
    LET u == Parse(baseURL)
    IN  /\ IF u.err # ""
           THEN /\ client' = NilClient
                /\ ctor' = [called |-> TRUE, baseURL |-> baseURL,
                            err |-> Wrapf(urlError(u.err, baseURL),
                                          "could not parse url", <<>>, "Wrap")]
           ELSE /\ client' = [isNil |-> FALSE, url |-> u.url, accountSID |-> accountSID,
                              authToken |-> authToken, RequestHandler |-> rh]
                /\ ctor' = [called |-> TRUE, baseURL |-> baseURL, err |-> NilError]
        /\ UNCHANGED last

Get(ctx, path, do) ==
    /\ ~client.isNil
    /\ last' = request(client, ctx, "GET", path, NilBody, do)
    /\ UNCHANGED <<ctor, client>>

Post(ctx, path, body, do) ==
    /\ ~client.isNil
    /\ last' = request(client, ctx, "POST", path, body, do)
    /\ UNCHANGED <<ctor, client>>

Delete(ctx, path, do) ==
    /\ ~client.isNil
    /\ last' = request(client, ctx, "DELETE", path, NilBody, do)
    /\ UNCHANGED <<ctor, client>>

(***************************************************************************)
(* Inputs                                                                  *)
(***************************************************************************)
\* context.Background(), and a context derived from it (with a value, a
\* cancel function or a deadline).
Contexts == {"Background", "Derived"}

\* nil, or a handler that returns what the environment chooses.
Handlers == {"nil", "mock"}

StatusCodes == {0 - 1, 0, 100, 199, 200, 204, 302, 399, 400, 401, 403, 404, 405, 500, 503, 1000}

Bodies == [isNil : {FALSE}, data : StringsUpTo(BodyChars, MaxBodyLen), readErr : BOOLEAN]

EmptyBody == [isNil |-> FALSE, data |-> <<>>, readErr |-> FALSE]

\* A response that comes without an error has a non-nil Body (the contract
\* of http.Client.Do, which RequestHandler abstracts).  Every status code
\* comes with an empty body, the codes at the edges of the classification
\* with every body.
Responses ==
    [isNil : {FALSE}, StatusCode : StatusCodes, Body : {EmptyBody}]
    \cup [isNil : {FALSE}, StatusCode : {200, 399, 404, 500}, Body : Bodies]

\* Errors a handler returns: a plain one, as http.Client and the tests
\* produce, and one that was itself wrapped with pkg/errors.
TransportErrors ==
    { <<[type |-> "fundamental", text |-> "test", arg |-> <<>>, id |-> "respErr"]>>,
      <<[type |-> "withStack", text |-> "", arg |-> <<>>, id |-> "handler"],
        [type |-> "withMessage", text |-> "dial", arg |-> <<>>, id |-> "handler"],
        [type |-> "fundamental", text |-> "connection refused", arg |-> <<>>,
         id |-> "dialErr"]>> }

\* What Do may return: a response and no error, or an error along with no
\* response, with &http.Response{} (Body nil) or with a response that has a
\* body.
Outcomes ==
    [resp : Responses, err : {NilError}]
    \cup [resp : {NilResponse, [NilResponse EXCEPT !.isNil = FALSE],
                  [isNil |-> FALSE, StatusCode |-> 302, Body |-> EmptyBody]},
          err : TransportErrors]

PostBodies == {[isNil |-> FALSE, data |-> <<123, 125>>, readErr |-> FALSE]}

\* "a://a" and "%": a base URL with scheme and host, and an unparseable one.
SampleBaseURLs == {<<97, 58, 47, 47, 97>>, <<37>>}

\* "/a" and "/%"
SamplePaths == {<<47, 97>>, <<47, 37>>}

(***************************************************************************)
(* Spec: one client, built from a sample base URL, and any sequence of     *)
(* calls on it with every handler outcome.                                 *)
(***************************************************************************)
Next ==
    \/ /\ ~ctor.called
       /\ \E baseURL \in SampleBaseURLs, rh \in Handlers :
              NewHTTPClient("acc", "auth", baseURL, rh)
    \/ \E ctx \in Contexts, path \in SamplePaths, do \in Outcomes :
           Get(ctx, path, do)
    \/ \E ctx \in Contexts, path \in SamplePaths, body \in PostBodies, do \in Outcomes :
           Post(ctx, path, body, do)
    \/ \E ctx \in Contexts, path \in SamplePaths, do \in Outcomes :
           Delete(ctx, path, do)

Spec == Init /\ [][Next]_vars

(***************************************************************************)
(* SpecURL: one client, built from any base URL up to MaxBaseLen, and one  *)
(* call on it with any path up to MaxPathLen.                              *)
(***************************************************************************)
URLOutcomes ==
    { [resp |-> [isNil |-> FALSE, StatusCode |-> 200, Body |-> EmptyBody], err |-> NilError],
      [resp |-> [isNil |-> FALSE, StatusCode |-> 500, Body |-> EmptyBody], err |-> NilError],
      [resp |-> NilResponse,
       err |-> <<[type |-> "fundamental", text |-> "test", arg |-> <<>>, id |-> "respErr"]>>] }

BaseURLs == StringsUpTo(URLChars, MaxBaseLen)

Paths == StringsUpTo(URLChars, MaxPathLen)

NextURL ==
    \/ /\ ~ctor.called
       /\ \E baseURL \in BaseURLs : NewHTTPClient("acc", "auth", baseURL, "mock")
    \/ /\ last = NoCall
       /\ \E path \in Paths, do \in URLOutcomes : Get("Background", path, do)
    \/ /\ last = NoCall
       /\ \E path \in Paths, body \in PostBodies, do \in URLOutcomes :
              Post("Background", path, body, do)
    \/ /\ last = NoCall
       /\ \E path \in Paths, do \in URLOutcomes : Delete("Background", path, do)

SpecURL == Init /\ [][NextURL]_vars

(***************************************************************************)
(* Properties                                                              *)
(***************************************************************************)
\* A call has been made on the client.
Called == last.method # ""

\* The handler was invoked and handed back a response and no error.
Responded == last.invoked >= 1 /\ last.doErr = NilError

\* The handler was invoked and returned an error.
Failed == last.invoked >= 1 /\ last.doErr # NilError

\* The value of a string of decimal digits.
RECURSIVE DigitsValue(_)
DigitsValue(s) ==
    IF s = <<>> THEN 0
    ELSE DigitsValue(SubSeq(s, 1, Len(s) - 1)) * 10 + (s[Len(s)] - 48)

\* s is n in decimal: digits only, no padding, a '-' for a negative n.
IsUnsignedDecimalOf(s, n) ==
    /\ Len(s) >= 1
    /\ \A i \in 1..Len(s) : 48 <= s[i] /\ s[i] <= 57
    /\ Len(s) > 1 => s[1] # 48
    /\ DigitsValue(s) = n

IsDecimalOf(s, n) ==
    IF n < 0
    THEN Len(s) >= 2 /\ s[1] = 45 /\ IsUnsignedDecimalOf(Tail(s), 0 - n)
    ELSE IsUnsignedDecimalOf(s, n)

\* inner is err itself or one of the causes below it.
InChain(inner, err) == \E k \in 1..Len(err) : SubSeq(err, k, Len(err)) = inner

\* C1 as stated: for every verb and every response with a status code in
\* [200,400), the call returns exactly the response's body bytes and no error.
C1_BodyAlwaysReturned ==
    (Responded /\ 200 <= last.resp.StatusCode /\ last.resp.StatusCode < 400)
        => /\ last.bytes = [isNil |-> FALSE, data |-> last.resp.Body.data]
           /\ last.err = NilError

\* C1 amended: for every verb and every response with a status code in
\* [200,400), the call returns the bytes the body yielded, unmodified; it
\* returns no error exactly when the body was read to its end, and
\* otherwise returns the read error itself along with the bytes read.
C1_BodyReturned ==
    (Responded /\ 200 <= last.resp.StatusCode /\ last.resp.StatusCode < 400)
        => /\ last.bytes = [isNil |-> FALSE, data |-> last.resp.Body.data]
           /\ (last.err = NilError) = ~last.resp.Body.readErr
           /\ last.resp.Body.readErr
                  => Len(last.err) = 1 /\ last.err[1].id = "io.ErrUnexpectedEOF"

C1_Witness ==
    /\ last.method = "POST" /\ Responded
    /\ last.resp.StatusCode = 399
    /\ last.resp.Body.data # <<>> /\ ~last.resp.Body.readErr
    /\ last.bytes.data = last.resp.Body.data
    /\ last.err = NilError

\* C2: for every verb and every body, a response with status 404 makes the
\* call return the ErrNotFound sentinel itself and no bytes.
C2_NotFoundSentinel ==
    (Responded /\ last.resp.StatusCode = 404)
        => last.err = ErrNotFound /\ last.bytes = NilBytes

C2_Witness ==
    /\ last.method = "DELETE" /\ Responded
    /\ last.resp.StatusCode = 404 /\ last.resp.Body.data # <<>>
    /\ last.err = ErrNotFound

\* C3: for every verb, a response with a status code outside [200,400) other
\* than 404 makes the call return no bytes and an error whose message is
\* "unexpected status code: " followed by the code in decimal, and that error
\* is not ErrNotFound.
C3_UnexpectedStatus ==
    (Responded /\ (last.resp.StatusCode < 200 \/ last.resp.StatusCode >= 400)
               /\ last.resp.StatusCode # 404)
        => /\ last.bytes = NilBytes
           /\ Len(ErrorString(last.err)) = 1
           /\ ErrorString(last.err)[1].text = "unexpected status code: "
           /\ IsDecimalOf(ErrorString(last.err)[1].arg, last.resp.StatusCode)
           /\ last.err # ErrNotFound

C3_Witness ==
    /\ last.method = "GET" /\ Responded
    /\ last.resp.StatusCode = 500
    /\ ErrorString(last.err) = <<[text |-> "unexpected status code: ", arg |-> <<53, 48, 48>>]>>
    /\ last.bytes = NilBytes

\* C4 as stated: for every verb, when the handler returns an error the call
\* returns no bytes and an error whose cause chain contains the handler's
\* error and whose root cause (errors.Cause) is the handler's error itself.
C4_RootCauseIsTransportError ==
    Failed => /\ last.bytes = NilBytes
              /\ InChain(last.doErr, last.err)
              /\ Cause(last.err) = last.doErr

\* C4 amended: for every verb, when the handler returns an error the call
\* returns no bytes and a new error whose cause chain contains the handler's
\* error unchanged, whatever response came with it; its root cause is the
\* root cause of the handler's error, which is the handler's error itself
\* when that error has no cause of its own.
C4_CauseChainKept ==
    Failed => /\ last.bytes = NilBytes
              /\ last.err # last.doErr
              /\ InChain(last.doErr, last.err)
              /\ Cause(last.err) = Cause(last.doErr)
              /\ Len(last.doErr) = 1 => Cause(last.err) = last.doErr

C4_Witness ==
    /\ Failed
    /\ Len(last.doErr) = 3 /\ ~last.resp.isNil
    /\ Cause(last.err) = <<last.doErr[3]>>
    /\ last.bytes = NilBytes

C6_ContextBound == last.invoked >= 1 => last.req.ctx = last.ctx

\* C7: construction never partially constructs: a parseable baseURL gives a
\* usable client and no error, an unparseable one gives no client and an
\* error that wraps the parse failure; exactly one of the two is non-nil.
C7_ClientOrError ==
    ctor.called =>
        /\ client.isNil = (ctor.err # NilError)
        /\ IF Parse(ctor.baseURL).err = ""
           THEN /\ ~client.isNil /\ ~client.url.isNil
                /\ client.accountSID = "acc" /\ client.authToken = "auth"
           ELSE /\ client = NilClient
                /\ Cause(ctor.err) # ctor.err
                /\ Cause(ctor.err)[1].type = "*url.Error"
                /\ Cause(ctor.err)[1].arg = ctor.baseURL

C7_Witness ==
    /\ ctor.called /\ ctor.baseURL = <<37>>
    /\ client.isNil /\ ctor.err # NilError

\* C8 as stated: every client construction returns holds a baseURL with a
\* scheme; construction fails for a baseURL that has none, such as "a" or "".
C8_BaseURLAbsolute ==
    (ctor.called /\ ~client.isNil) => client.url.Scheme # <<>>

\* C8 amended: every client construction returns holds the URL url.Parse
\* made of baseURL, absolute or not; construction fails only for a string
\* url.Parse rejects, so a string that parses as a relative reference, such
\* as "a" or "", gives a client whose baseURL has no scheme.
C8_BaseURLParsed ==
    ctor.called =>
        /\ ~client.isNil => client.url = Parse(ctor.baseURL).url /\ ~client.url.isNil
        /\ client.isNil => Parse(ctor.baseURL).err # ""
        /\ ctor.baseURL \in {<<>>, <<97>>, <<47, 97>>}
               => ~client.isNil /\ client.url.Scheme = <<>>

C8_Witness ==
    /\ ctor.called /\ ctor.baseURL = <<97>>
    /\ ~client.isNil /\ client.url.Scheme = <<>> /\ ctor.err = NilError

\* C9: a client built with the nil handler uses a default one, so a call
\* whose request was constructed goes through a handler and does not fail
\* for want of one.
C9_DefaultTransport ==
    (Called /\ client.RequestHandler = "nil"
            /\ Parse(String(client.url) \o last.path).err = "")
        => last.invoked = 1 /\ ~last.panicked

\* C10 as stated: whenever the handler hands back a response, with or
\* without an error, its body is closed before the call returns, and the
\* body is read only on the success path.
C10_BodyAlwaysClosed ==
    /\ (last.invoked >= 1 /\ ~last.resp.isNil /\ ~last.resp.Body.isNil) => last.bodyClosed
    /\ last.bodyRead => Responded /\ 200 <= last.resp.StatusCode /\ last.resp.StatusCode < 400

\* C10 amended: whenever the handler hands back a response and no error, the
\* body is closed before the call returns on every exit path (success,
\* body-read failure, 404, unexpected status) and is read only on the success
\* path; a response that comes with an error is ignored, its body neither
\* read nor closed.
C10_BodyClosedUnlessError ==
    /\ Responded => last.bodyClosed
    /\ Failed => ~last.bodyClosed /\ ~last.bodyRead
    /\ last.bodyRead =
           (Responded /\ 200 <= last.resp.StatusCode /\ last.resp.StatusCode < 400)

C10_Witness ==
    /\ Responded
    /\ last.resp.StatusCode = 200 /\ last.resp.Body.readErr
    /\ last.bodyRead /\ last.bodyClosed /\ last.err # NilError

====
